---- MODULE Spec2Model ----
(***************************************************************************)
(* VoiceProvider (src/providers/VoiceProvider.tsx): the speech-recognition *)
(* lifecycle, the confidence filter and the command registry.              *)
(*                                                                         *)
(* One action per operation of the context value and per notification of   *)
(* a SpeechRecognition object.  Each action is one task of the event loop: *)
(* it sees the state committed by the previous task and its setState       *)
(* updaters are applied in order before the next task.                     *)
(*                                                                         *)
(* Confidences and thresholds are tenths (6 stands for 0.6).  Strings are  *)
(* sequences of one-character strings.  A session of the platform is a     *)
(* record: its status and the confidenceThreshold its onresult closed over.*)
(***************************************************************************)
EXTENDS Integers, Sequences, FiniteSets, TLC

\* ------------------------------------------------------------- bounds
\* SpeechRecognition objects that may be alive (not yet ended) at once.
MaxSessions == 2
\* registerCommand calls in a run.
MaxRegs == 2
\* login and register calls in flight at once.
MaxCalls == 2

\* ---------------------------------------------------------- constants
\* confidenceThreshold = 0.6, in tenths.
DefaultConfidenceThreshold == 6

\* The values the confidenceThreshold prop takes, in tenths: the default
\* and a higher one.
Thresholds == {DefaultConfidenceThreshold, DefaultConfidenceThreshold + 2}

\* lastResult[0].confidence as the platform delivers it: <<c>>, or <<>> when
\* the alternative carries none (undefined).
RawConfidences == {<<>>, <<4>>, <<7>>, <<9>>}

\* lastResult[0].confidence || 0
OrZero(rc) == IF rc = <<>> \/ rc[1] = 0 THEN 0 ELSE rc[1]

\* ------------------------------------------------------------ strings
Whitespace == {" "}

LowerChar(c) ==
    CASE c = "A" -> "a"
      [] c = "B" -> "b"
      [] OTHER -> c

\* String.prototype.toLowerCase
ToLowerCase(s) == [i \in 1..Len(s) |-> LowerChar(s[i])]

RECURSIVE TrimStart(_)
TrimStart(s) ==
    IF s # <<>> /\ Head(s) \in Whitespace THEN TrimStart(Tail(s)) ELSE s

RECURSIVE TrimEnd(_)
TrimEnd(s) ==
    IF s # <<>> /\ s[Len(s)] \in Whitespace
    THEN TrimEnd(SubSeq(s, 1, Len(s) - 1))
    ELSE s

\* String.prototype.trim
Trim(s) == TrimEnd(TrimStart(s))

\* String.prototype.includes
Includes(s, p) ==
    \E i \in 0..(Len(s) - Len(p)) : SubSeq(s, i + 1, i + Len(p)) = p

Digits == {"1", "2"}

\* One atom of a pattern against one character: "\\d" is the digit class.
AtomMatches(atom, c) == IF atom = "\\d" THEN c \in Digits ELSE atom = c

\* RegExp.prototype.test of an unanchored pattern without flags (no
\* lastIndex state): some window of the string matches atom by atom.
RegExpTest(atoms, s) ==
    \E i \in 0..(Len(s) - Len(atoms)) :
        \A k \in 1..Len(atoms) : AtomMatches(atoms[k], s[i + k])

\* ----------------------------------------------------------- matchers
\* A Map key: a string (compared by value) or a RegExp object (compared by
\* identity: obj is the object, 0 for a string).
StringPattern(text) == [kind |-> "string", text |-> text, obj |-> 0]
RegExpPattern(obj, atoms) == [kind |-> "regexp", text |-> atoms, obj |-> obj]

Patterns ==
    { StringPattern(<<"B">>),
      RegExpPattern(1, <<"\\d">>),
      RegExpPattern(2, <<"\\d">>) }

\* lastResult[0].transcript as the platform delivers it.
RawTranscripts ==
    { <<" ", "A", "b", " ">>,
      <<"B", "1">> }

\* The test of lines 130-136.
PatternMatches(pattern, transcript) ==
    IF pattern.kind = "string"
    THEN Includes(transcript, ToLowerCase(pattern.text))
    ELSE RegExpTest(pattern.text, transcript)

\* -------------------------------------------------------------- state
NoCommand == [present |-> FALSE]
NoError == "null"
NoSession == 0

Sessions == 1..MaxSessions
Handlers == 1..MaxRegs

VARIABLES
    isListening,          \* state.isListening
    isSupported,          \* state.isSupported
    isEnabled,            \* state.isEnabled
    lastCommand,          \* state.lastCommand
    error,                \* state.error
    confidence,           \* state.confidence
    confidenceThreshold,  \* the prop of the current render
    recognitionRef,       \* recognitionRef.current: a session, or NoSession
    session,              \* the platform's SpeechRecognition objects
    commandHandlers,      \* commandHandlersRef.current, in insertion order
    cleanups,             \* the functions registerCommand has returned
    hasSpeechRecognition, \* window.SpeechRecognition || webkitSpeechRecognition
    showFeedback,         \* VoiceFeedbackUI: showFeedback
    feedbackTimer,        \* VoiceFeedbackUI: the 3000 ms timer is pending
    user,                 \* AuthProvider: user
    localStorage,         \* window.localStorage: key -> value, or absent
    inFlight,             \* AuthProvider: login and register calls in flight
    lastOp                \* the operation or notification that ran last

state == <<isListening, isSupported, isEnabled, lastCommand, error, confidence>>

vars == <<isListening, isSupported, isEnabled, lastCommand, error, confidence,
          confidenceThreshold, recognitionRef, session, commandHandlers,
          cleanups, hasSpeechRecognition, showFeedback, feedbackTimer,
          user, localStorage, inFlight, lastOp>>

\* What VoiceProvider and VoiceFeedbackUI own, and what AuthProvider owns.
voice == <<isListening, isSupported, isEnabled, lastCommand, error, confidence,
           confidenceThreshold, recognitionRef, session, commandHandlers,
           cleanups, hasSpeechRecognition, showFeedback, feedbackTimer>>

auth == <<user, localStorage, inFlight>>

\* A slot of the platform that holds no live object.
Free == [status |-> "none", th |-> 0]

\* ------------------------------------------------------------ platform
\* SpeechRecognition.stop(): a request; the end notification follows later.
\* Without effect on an object that is not started.
StopRequested(ss, s) ==
    CASE ss[s].status = "starting"  -> [ss EXCEPT ![s].status = "cancelling"]
      [] ss[s].status = "listening" -> [ss EXCEPT ![s].status = "stopping"]
      [] OTHER -> ss

\* SpeechRecognition.start() raises InvalidStateError on a started object.
\* Between an error notification and the end that follows it the outcome
\* is the platform's.
StartThrows(status) ==
    CASE status = "idle"    -> {FALSE}
      [] status = "errored" -> {TRUE, FALSE}
      [] OTHER              -> {TRUE}

\* An object nothing refers to any more and that will notify nothing.
Collect(ss, ref) ==
    [s \in Sessions |->
        IF s # ref /\ ss[s].status = "idle" THEN Free ELSE ss[s]]

\* --------------------------------------------------------------- effect
\* The effect body with isSupported: true in the branch of lines 147-153.
EffectBodyAlwaysSupported(th, ss) ==
    IF hasSpeechRecognition
    THEN \E n \in Sessions :
            /\ ss[n].status = "none"
            /\ \A m \in Sessions : ss[m].status = "none" => n <= m
            /\ session' = [ss EXCEPT ![n] = [status |-> "idle", th |-> th]]
            /\ recognitionRef' = n
            /\ isSupported' = TRUE
            /\ error' = error
    ELSE /\ session' = ss
         /\ recognitionRef' = recognitionRef
         /\ isSupported' = TRUE
         /\ error' = "Speech recognition not supported in this browser"

\* The body of the effect, lines 62-153, for threshold th.
\* Lines 66-146: a new object, its handlers closing over th.
\* Lines 147-153: no facility.
EffectBody(th, ss) ==
    IF hasSpeechRecognition
    THEN \E n \in Sessions :
            /\ ss[n].status = "none"
            /\ \A m \in Sessions : ss[m].status = "none" => n <= m
            /\ session' = [ss EXCEPT ![n] = [status |-> "idle", th |-> th]]
            /\ recognitionRef' = n
            /\ isSupported' = TRUE
            /\ error' = error
    ELSE /\ session' = ss
         /\ recognitionRef' = recognitionRef
         /\ isSupported' = FALSE
         /\ error' = "Speech recognition not supported in this browser"

\* ----------------------------------------------------------------- auth
\* An absent key of localStorage; a value is a sequence of characters and
\* longer pieces.
Absent == <<>>
NoUser == "null"

Keys == {"token", "userId", "user"}

\* The accounts of the API: user.id.
Users == {"u1", "u2"}

\* JSON.stringify and JSON.parse of a user object.
Stringify(u) == <<"{", u, "}">>
Parse(text) == text[2]

\* response.data.token for an account.
TokenOf(u) == <<"jwt", u>>

NoCall == [stage |-> "none"]

EmptyStorage == [k \in Keys |-> Absent]

\* localStorage after lines 44-46 for the response of account u.
StoredLogin(store, u) ==
    [store EXCEPT !["token"] = TokenOf(u),
                  !["userId"] = <<u>>,
                  !["user"] = Stringify(u)]

\* AuthProvider after its first render and the effect of lines 30-37 over
\* the storage the page was loaded with.
MountAuth(store) ==
    /\ localStorage = store
    /\ user = IF store["user"] # Absent THEN Parse(store["user"]) ELSE NoUser
    /\ inFlight = [c \in 1..MaxCalls |-> NoCall]

\* VoiceProvider after its first render and its effect, for either
\* platform and any confidenceThreshold prop.
MountVoice ==
    /\ hasSpeechRecognition \in BOOLEAN
    /\ confidenceThreshold \in Thresholds
    /\ isListening = FALSE
    /\ isEnabled = TRUE
    /\ lastCommand = NoCommand
    /\ confidence = 0
    /\ commandHandlers = <<>>
    /\ cleanups = <<>>
    /\ showFeedback = FALSE
    /\ feedbackTimer = FALSE
    /\ lastOp = [op |-> "mount"]
    /\ IF hasSpeechRecognition
       THEN /\ session = [s \in Sessions |->
                            IF s = 1
                            THEN [status |-> "idle",
                                  th |-> confidenceThreshold]
                            ELSE Free]
            /\ recognitionRef = 1
            /\ isSupported = TRUE
            /\ error = NoError
       ELSE /\ session = [s \in Sessions |-> Free]
            /\ recognitionRef = NoSession
            /\ isSupported = FALSE
            /\ error = "Speech recognition not supported in this browser"

\* State after the first render and its effects, on a first visit.
Init ==
    /\ MountVoice
    /\ MountAuth(EmptyStorage)

\* A change of language, continuous, interimResults, maxAlternatives or
\* confidenceThreshold: the cleanup of lines 155-162 on the object the ref
\* holds, then the effect body again.
ConfigChange(th) ==
    /\ confidenceThreshold' = th
    /\ LET stopped == IF recognitionRef # NoSession
                      THEN StopRequested(session, recognitionRef)
                      ELSE session
       IN EffectBody(th, Collect(stopped, NoSession))
    /\ lastOp' = [op |-> "config"]
    /\ UNCHANGED <<isListening, isEnabled, lastCommand, confidence,
                   commandHandlers, cleanups, hasSpeechRecognition, showFeedback,
                   feedbackTimer>>
    /\ UNCHANGED auth

\* ----------------------------------------------------------- operations
\* startListening without the isEnabled test of line 166.
StartListeningWhileDisabled(by) ==
    IF ~isSupported \/ recognitionRef = NoSession
    THEN /\ lastOp' = [op |-> by, threw |-> FALSE, escaped |-> FALSE]
         /\ UNCHANGED <<session, error>>
    ELSE \E threw \in StartThrows(session[recognitionRef].status) :
            /\ lastOp' = [op |-> by, threw |-> threw, escaped |-> FALSE]
            /\ IF threw
               THEN /\ error' = "Failed to start speech recognition"
                    /\ UNCHANGED session
               ELSE /\ session' = [session EXCEPT
                                     ![recognitionRef].status = "starting"]
                    /\ UNCHANGED error

\* startListening, lines 165-176.  by is the operation the caller invoked.
StartListeningBody(by) ==
    IF ~isSupported \/ ~isEnabled \/ recognitionRef = NoSession
    THEN /\ lastOp' = [op |-> by, threw |-> FALSE, escaped |-> FALSE]
         /\ UNCHANGED <<session, error>>
    ELSE \E threw \in StartThrows(session[recognitionRef].status) :
            /\ lastOp' = [op |-> by, threw |-> threw, escaped |-> FALSE]
            /\ IF threw
               THEN /\ error' = "Failed to start speech recognition"
                    /\ UNCHANGED session
               ELSE /\ session' = [session EXCEPT
                                     ![recognitionRef].status = "starting"]
                    /\ UNCHANGED error

\* stopListening, lines 178-182.
StopListeningBody(by) ==
    /\ lastOp' = [op |-> by, threw |-> FALSE, escaped |-> FALSE]
    /\ session' = IF recognitionRef # NoSession
                  THEN StopRequested(session, recognitionRef)
                  ELSE session
    /\ UNCHANGED error

StartListening ==
    /\ StartListeningBody("startListening")
    /\ UNCHANGED <<isListening, isSupported, isEnabled, lastCommand,
                   confidence, confidenceThreshold, recognitionRef,
                   commandHandlers, cleanups, hasSpeechRecognition, showFeedback,
                   feedbackTimer>>
    /\ UNCHANGED auth

\* stopListening that also records the end it has only requested.
StopListeningAndClear ==
    /\ StopListeningBody("stopListening")
    /\ isListening' = FALSE
    /\ UNCHANGED <<isSupported, isEnabled, lastCommand, confidence,
                   confidenceThreshold, recognitionRef, commandHandlers,
                   cleanups, hasSpeechRecognition, showFeedback,
                   feedbackTimer>>
    /\ UNCHANGED auth

StopListening ==
    /\ StopListeningBody("stopListening")
    /\ UNCHANGED <<isListening, isSupported, isEnabled, lastCommand,
                   confidence, confidenceThreshold, recognitionRef,
                   commandHandlers, cleanups, hasSpeechRecognition, showFeedback,
                   feedbackTimer>>
    /\ UNCHANGED auth

\* toggleListening, lines 184-190.
ToggleListening ==
    /\ IF isListening
       THEN StopListeningBody("toggleListening")
       ELSE StartListeningBody("toggleListening")
    /\ UNCHANGED <<isListening, isSupported, isEnabled, lastCommand,
                   confidence, confidenceThreshold, recognitionRef,
                   commandHandlers, cleanups, hasSpeechRecognition, showFeedback,
                   feedbackTimer>>
    /\ UNCHANGED auth

\* setEnabled without the stop of lines 194-196.
SetEnabledOnly(enabled) ==
    /\ isEnabled' = enabled
    /\ lastOp' = [op |-> "setEnabled"]
    /\ UNCHANGED <<isListening, isSupported, lastCommand, error, confidence,
                   confidenceThreshold, recognitionRef, session,
                   commandHandlers, cleanups, hasSpeechRecognition, showFeedback,
                   feedbackTimer>>
    /\ UNCHANGED auth

\* setEnabled, lines 192-197.
SetEnabled(enabled) ==
    /\ isEnabled' = enabled
    /\ LET stops == ~enabled /\ isListening
       IN /\ session' = IF stops /\ recognitionRef # NoSession
                        THEN StopRequested(session, recognitionRef)
                        ELSE session
          /\ lastOp' = [op |-> "setEnabled"]
    /\ UNCHANGED <<isListening, isSupported, lastCommand, error, confidence,
                   confidenceThreshold, recognitionRef, commandHandlers,
                   cleanups, hasSpeechRecognition, showFeedback,
                   feedbackTimer>>
    /\ UNCHANGED auth

\* -------------------------------------------------------- the registry
\* Map.prototype.set: a present key keeps its place and takes the value.
MapSet(m, pattern, handler) ==
    IF \E i \in 1..Len(m) : m[i].pattern = pattern
    THEN [i \in 1..Len(m) |->
            IF m[i].pattern = pattern
            THEN [pattern |-> pattern, handler |-> handler]
            ELSE m[i]]
    ELSE Append(m, [pattern |-> pattern, handler |-> handler])

\* Map.prototype.delete
MapDelete(m, pattern) == SelectSeq(m, LAMBDA e : e.pattern # pattern)

\* registerCommand, lines 199-209.  The callback of the n-th call is n; the
\* function returned closes over the pattern.
RegisterCommand(pattern) ==
    /\ Len(cleanups) < MaxRegs
    /\ LET h == Len(cleanups) + 1
       IN /\ commandHandlers' = MapSet(commandHandlers, pattern, h)
          /\ cleanups' = Append(cleanups, [pattern |-> pattern, called |-> FALSE])
          /\ lastOp' = [op |-> "registerCommand"]
    /\ UNCHANGED <<isListening, isSupported, isEnabled, lastCommand, error,
                   confidence, confidenceThreshold, recognitionRef, session,
                   hasSpeechRecognition, showFeedback,
                   feedbackTimer>>
    /\ UNCHANGED auth

\* The function registerCommand returned to caller h, lines 206-208.
\* called records that it has run.
Cleanup(h) ==
    /\ h \in 1..Len(cleanups)
    /\ commandHandlers' = MapDelete(commandHandlers, cleanups[h].pattern)
    /\ cleanups' = [cleanups EXCEPT ![h].called = TRUE]
    /\ lastOp' = [op |-> "cleanup"]
    /\ UNCHANGED <<isListening, isSupported, isEnabled, lastCommand, error,
                   confidence, confidenceThreshold, recognitionRef, session,
                   hasSpeechRecognition, showFeedback,
                   feedbackTimer>>
    /\ UNCHANGED auth

\* ------------------------------------------------------------ feedback
\* The effect of VoiceFeedbackUI, lines 233-247, after a state update.  It
\* runs when isListening changed or lastCommand is a new object
\* (newCommand); its previous cleanup, which clears a pending timer, runs
\* first.  A timer is set whenever a command is recorded, listening or not.
VoiceFeedbackEffect(newCommand) ==
    IF isListening' # isListening \/ newCommand
    THEN IF isListening' \/ lastCommand'.present
         THEN /\ showFeedback' = TRUE
              /\ feedbackTimer' = lastCommand'.present
         ELSE /\ showFeedback' = FALSE
              /\ feedbackTimer' = FALSE
    ELSE UNCHANGED <<showFeedback, feedbackTimer>>

\* The callback of the timer of lines 238-240, 3000 ms after it was set.
TimerFires ==
    /\ feedbackTimer
    /\ showFeedback' = FALSE
    /\ feedbackTimer' = FALSE
    /\ lastOp' = [op |-> "timer"]
    /\ UNCHANGED <<isListening, isSupported, isEnabled, lastCommand, error,
                   confidence, confidenceThreshold, recognitionRef, session,
                   commandHandlers, cleanups, hasSpeechRecognition>>
    /\ UNCHANGED auth

\* Line 249: the indicator is rendered.
IndicatorVisible == isSupported /\ showFeedback

\* ------------------------------------------------------ auth operations
\* login, lines 39-41: the call of authApi.login for account u is in flight.
Login(c, u) ==
    /\ inFlight[c] = NoCall
    /\ inFlight' = [inFlight EXCEPT ![c] = [stage |-> "login", by |-> "login",
                                            u |-> u]]
    /\ lastOp' = [op |-> "login"]
    /\ UNCHANGED <<user, localStorage>>
    /\ UNCHANGED voice

\* register, lines 57-59: the call of authApi.register is in flight.
Register(c, u) ==
    /\ inFlight[c] = NoCall
    /\ inFlight' = [inFlight EXCEPT ![c] = [stage |-> "register",
                                            by |-> "register", u |-> u]]
    /\ lastOp' = [op |-> "register"]
    /\ UNCHANGED <<user, localStorage>>
    /\ UNCHANGED voice

\* authApi.register resolves: line 60 calls login with the same account.
RegisterResolves(c) ==
    /\ inFlight[c].stage = "register"
    /\ inFlight' = [inFlight EXCEPT ![c].stage = "login"]
    /\ lastOp' = [op |-> "registered"]
    /\ UNCHANGED <<user, localStorage>>
    /\ UNCHANGED voice

\* authApi.register rejects: lines 61-63 rethrow; line 60 is not reached.
RegisterRejects(c) ==
    /\ inFlight[c].stage = "register"
    /\ inFlight' = [inFlight EXCEPT ![c] = NoCall]
    /\ lastOp' = [op |-> "rejected", by |-> "register", stage |-> "register",
                  rethrown |-> TRUE]
    /\ UNCHANGED <<user, localStorage>>
    /\ UNCHANGED voice

\* Lines 42-50 with localStorage.setItem('token', token) lost.
LoginResolvesWithoutToken(c) ==
    /\ inFlight[c].stage = "login"
    /\ localStorage' = [localStorage EXCEPT !["userId"] = <<inFlight[c].u>>,
                                            !["user"] = Stringify(inFlight[c].u)]
    /\ user' = inFlight[c].u
    /\ inFlight' = [inFlight EXCEPT ![c] = NoCall]
    /\ lastOp' = [op |-> "resolved", by |-> inFlight[c].by]
    /\ UNCHANGED voice

\* authApi.login resolves with the user and token of the account: lines
\* 42-50 (of login itself, or of the login that register awaits).
LoginResolves(c) ==
    /\ inFlight[c].stage = "login"
    /\ localStorage' = StoredLogin(localStorage, inFlight[c].u)
    /\ user' = inFlight[c].u
    /\ inFlight' = [inFlight EXCEPT ![c] = NoCall]
    /\ lastOp' = [op |-> "resolved", by |-> inFlight[c].by]
    /\ UNCHANGED voice

\* authApi.login rejects: lines 51-53 rethrow (and lines 61-63 again when
\* register awaits it).
LoginRejects(c) ==
    /\ inFlight[c].stage = "login"
    /\ inFlight' = [inFlight EXCEPT ![c] = NoCall]
    /\ lastOp' = [op |-> "rejected", by |-> inFlight[c].by, stage |-> "login",
                  rethrown |-> TRUE]
    /\ UNCHANGED <<user, localStorage>>
    /\ UNCHANGED voice

\* logout, lines 65-72.
Logout ==
    /\ localStorage' = [localStorage EXCEPT !["token"] = Absent,
                                            !["userId"] = Absent,
                                            !["user"] = Absent]
    /\ user' = NoUser
    /\ lastOp' = [op |-> "logout"]
    /\ UNCHANGED inFlight
    /\ UNCHANGED voice

\* -------------------------------------------------------- notifications
\* onstart without error: null in the update of line 75.
OnStartKeepsError(s) ==
    /\ session[s].status \in {"starting", "cancelling"}
    /\ session' = [session EXCEPT ![s].status =
                     IF @ = "starting" THEN "listening" ELSE "stopping"]
    /\ isListening' = TRUE
    /\ lastOp' = [op |-> "onstart"]
    /\ UNCHANGED <<isSupported, isEnabled, lastCommand, error, confidence,
                   confidenceThreshold, recognitionRef, commandHandlers,
                   cleanups, hasSpeechRecognition>>
    /\ VoiceFeedbackEffect(FALSE)
    /\ UNCHANGED auth

\* recognition.onstart, lines 74-76.
OnStart(s) ==
    /\ session[s].status \in {"starting", "cancelling"}
    /\ session' = [session EXCEPT ![s].status =
                     IF @ = "starting" THEN "listening" ELSE "stopping"]
    /\ isListening' = TRUE
    /\ error' = NoError
    /\ lastOp' = [op |-> "onstart"]
    /\ UNCHANGED <<isSupported, isEnabled, lastCommand, confidence,
                   confidenceThreshold, recognitionRef, commandHandlers,
                   cleanups, hasSpeechRecognition>>
    /\ VoiceFeedbackEffect(FALSE)
    /\ UNCHANGED auth

\* recognition.onend, lines 78-80: after a stop, an error, or on its own.
OnEnd(s) ==
    /\ session[s].status \in {"listening", "stopping", "cancelling", "errored"}
    /\ session' = Collect([session EXCEPT ![s].status = "idle"], recognitionRef)
    /\ isListening' = FALSE
    /\ lastOp' = [op |-> "onend"]
    /\ UNCHANGED <<isSupported, isEnabled, lastCommand, error, confidence,
                   confidenceThreshold, recognitionRef, commandHandlers,
                   cleanups, hasSpeechRecognition>>
    /\ VoiceFeedbackEffect(FALSE)
    /\ UNCHANGED auth

ErrorCodes == {"not-allowed", "aborted"}

\* event.error: the four codes the switch names and two it does not.
AllErrorCodes ==
    {"no-speech", "audio-capture", "not-allowed", "network", "aborted", "xyz"}

\* The switch of lines 83-100 with every case lost: the default for all.
ErrorMessageDefault(code) == "Speech recognition error: " \o code

\* The switch of lines 83-100.
ErrorMessage(code) ==
    CASE code = "no-speech"     -> "No speech detected"
      [] code = "audio-capture" -> "Audio capture failed"
      [] code = "not-allowed"   -> "Microphone access denied"
      [] code = "network"       -> "Network error"
      [] OTHER                  -> "Speech recognition error: " \o code

\* recognition.onerror, lines 82-107.
OnError(s, code) ==
    /\ session[s].status \in {"starting", "listening", "stopping", "cancelling"}
    /\ session' = [session EXCEPT ![s].status = "errored"]
    /\ error' = ErrorMessage(code)
    /\ isListening' = FALSE
    /\ lastOp' = [op |-> "onerror", code |-> code]
    /\ UNCHANGED <<isSupported, isEnabled, lastCommand, confidence,
                   confidenceThreshold, recognitionRef, commandHandlers,
                   cleanups, hasSpeechRecognition>>
    /\ VoiceFeedbackEffect(FALSE)
    /\ UNCHANGED auth

\* The forEach of lines 129-141 over the entries in insertion order.  A
\* callback in failing throws; nothing catches it, so the iteration ends
\* there and the exception leaves onresult.
RECURSIVE ForEach(_, _, _, _, _)
ForEach(entries, transcript, c, failing, called) ==
    IF entries = <<>>
    THEN [invoked |-> called, threw |-> FALSE]
    ELSE LET e == Head(entries)
             call == [handler |-> e.handler, command |-> transcript,
                      confidence |-> c]
         IN IF PatternMatches(e.pattern, transcript)
            THEN IF e.handler \in failing
                 THEN [invoked |-> Append(called, call), threw |-> TRUE]
                 ELSE ForEach(Tail(entries), transcript, c, failing,
                              Append(called, call))
            ELSE ForEach(Tail(entries), transcript, c, failing, called)

\* Line 114 with the comparison lost: every result is accepted.
QualifiesAlways(c, th) == TRUE

\* Line 114 with the comparison turned round.
QualifiesBelow(c, th) == c <= th

\* The test of line 114.
Qualifies(c, th) == c >= th

\* recognition.onresult, lines 109-143, of the object s created under
\* threshold session[s].th.  The command carries no timestamp here; floor
\* is history: the threshold the accepting closure compared against.
OnResult(s, raw, rc, failing) ==
    /\ session[s].status \in {"listening", "stopping"}
    /\ LET transcript == ToLowerCase(Trim(raw))
           c == OrZero(rc)
       IN IF Qualifies(c, session[s].th)
          THEN LET d == ForEach(commandHandlers, transcript, c, failing, <<>>)
               IN /\ lastCommand' = [present |-> TRUE, command |-> transcript,
                                     confidence |-> c,
                                     floor |-> session[s].th]
                  /\ confidence' = c
                  /\ error' = NoError
                  /\ lastOp' = [op |-> "onresult", rc |-> rc,
                                th |-> session[s].th, accepted |-> TRUE,
                                invoked |-> d.invoked, escaped |-> d.threw]
          ELSE /\ lastOp' = [op |-> "onresult", rc |-> rc,
                             th |-> session[s].th, accepted |-> FALSE,
                             invoked |-> <<>>, escaped |-> FALSE]
               /\ UNCHANGED <<lastCommand, confidence, error>>
    /\ UNCHANGED <<isListening, isSupported, isEnabled, confidenceThreshold,
                   recognitionRef, session, commandHandlers, cleanups,
                   hasSpeechRecognition>>
    /\ VoiceFeedbackEffect(Qualifies(OrZero(rc), session[s].th))
    /\ UNCHANGED auth

\* The callbacks in the registry.
Registered == {commandHandlers[i].handler : i \in 1..Len(commandHandlers)}

\* ------------------------------------------------------- specification
Next ==
    \/ StartListening
    \/ StopListening
    \/ ToggleListening
    \/ \E enabled \in BOOLEAN : SetEnabled(enabled)
    \/ \E pattern \in Patterns : RegisterCommand(pattern)
    \/ \E h \in Handlers : Cleanup(h)
    \/ \E th \in Thresholds : ConfigChange(th)
    \/ \E s \in Sessions : OnStart(s)
    \/ \E s \in Sessions : OnEnd(s)
    \/ \E s \in Sessions, code \in ErrorCodes : OnError(s, code)
    \/ \E s \in Sessions, raw \in RawTranscripts, rc \in RawConfidences,
          failing \in SUBSET Registered : OnResult(s, raw, rc, failing)
    \/ TimerFires
    \/ \E c \in 1..MaxCalls, u \in Users : Login(c, u)
    \/ \E c \in 1..MaxCalls, u \in Users : Register(c, u)
    \/ \E c \in 1..MaxCalls : RegisterResolves(c)
    \/ \E c \in 1..MaxCalls : RegisterRejects(c)
    \/ \E c \in 1..MaxCalls : LoginResolves(c)
    \/ \E c \in 1..MaxCalls : LoginRejects(c)
    \/ Logout

Spec == Init /\ [][Next]_vars

\* The operations of VoiceProvider alone reach some 2.8 million states at
\* these bounds, and those of AuthProvider touch none of its state.  The
\* specifications below each take one part of Spec.  The registry
\* operations read and write commandHandlers and cleanups only, and no
\* other operation but onresult reads them: the specifications below each
\* keep one side of that split small.

\* The session lifecycle with an empty registry: every operation and
\* notification but registerCommand and its cleanup.
NextLifecycle ==
    \/ StartListening
    \/ StopListening
    \/ ToggleListening
    \/ \E enabled \in BOOLEAN : SetEnabled(enabled)
    \/ \E th \in Thresholds : ConfigChange(th)
    \/ \E s \in Sessions : OnStart(s)
    \/ \E s \in Sessions : OnEnd(s)
    \/ \E s \in Sessions, code \in ErrorCodes : OnError(s, code)
    \/ \E s \in Sessions, raw \in RawTranscripts, rc \in RawConfidences :
          OnResult(s, raw, rc, {})

LifecycleSpec == Init /\ [][NextLifecycle]_vars

\* The lifecycle without results, which change neither a session nor
\* isListening nor isEnabled.
NextControl ==
    \/ StartListening
    \/ StopListening
    \/ ToggleListening
    \/ \E enabled \in BOOLEAN : SetEnabled(enabled)
    \/ \E th \in Thresholds : ConfigChange(th)
    \/ \E s \in Sessions : OnStart(s)
    \/ \E s \in Sessions : OnEnd(s)
    \/ \E s \in Sessions, code \in ErrorCodes : OnError(s, code)

\* The end notification the platform owes a session that was asked to stop
\* or that reported an error.
EndOwed(s) ==
    /\ session[s].status \in {"stopping", "cancelling", "errored"}
    /\ OnEnd(s)

\* The platform delivers every end it owes.
FairControlSpec ==
    /\ Init
    /\ [][NextControl]_vars
    /\ \A s \in Sessions : WF_vars(EndOwed(s))

\* The registry and the dispatch, under the configuration of the first
\* render: the session is started and delivers results.
NextDispatch ==
    \/ StartListening
    \/ \E pattern \in Patterns : RegisterCommand(pattern)
    \/ \E h \in Handlers : Cleanup(h)
    \/ \E s \in Sessions : OnStart(s)
    \/ \E s \in Sessions, raw \in RawTranscripts, rc \in RawConfidences,
          failing \in SUBSET Registered : OnResult(s, raw, rc, failing)

DispatchSpec == Init /\ [][NextDispatch]_vars

\* Sessions that are started, stopped and replaced, and report every error
\* code.
NextErrors ==
    \/ StartListening
    \/ StopListening
    \/ \E th \in Thresholds : ConfigChange(th)
    \/ \E s \in Sessions : OnStart(s)
    \/ \E s \in Sessions : OnEnd(s)
    \/ \E s \in Sessions, code \in AllErrorCodes : OnError(s, code)

ErrorsSpec == Init /\ [][NextErrors]_vars

\* The session of the first render with the feedback indicator and its
\* timer.
NextFeedback ==
    \/ StartListening
    \/ StopListening
    \/ \E s \in Sessions : OnStart(s)
    \/ \E s \in Sessions : OnEnd(s)
    \/ \E s \in Sessions, code \in ErrorCodes : OnError(s, code)
    \/ \E s \in Sessions, raw \in RawTranscripts, rc \in RawConfidences :
          OnResult(s, raw, rc, {})
    \/ TimerFires

FeedbackSpec == Init /\ [][NextFeedback]_vars

\* AuthProvider, on a first visit or on a page loaded with the storage an
\* earlier login left, under the default VoiceProvider.
InitAuth ==
    /\ MountVoice
    /\ hasSpeechRecognition
    /\ confidenceThreshold = DefaultConfidenceThreshold
    /\ \E store \in {EmptyStorage} \cup
                     {StoredLogin(EmptyStorage, u) : u \in Users} :
          MountAuth(store)

NextAuth ==
    \/ \E c \in 1..MaxCalls, u \in Users : Login(c, u)
    \/ \E c \in 1..MaxCalls, u \in Users : Register(c, u)
    \/ \E c \in 1..MaxCalls : RegisterResolves(c)
    \/ \E c \in 1..MaxCalls : RegisterRejects(c)
    \/ \E c \in 1..MaxCalls : LoginResolves(c)
    \/ \E c \in 1..MaxCalls : LoginRejects(c)
    \/ Logout

AuthSpec == InitAuth /\ [][NextAuth]_vars

\* ---------------------------------------------------------------- claims
\* The callbacks of the registry whose pattern matches a transcript.
Matching(transcript) ==
    {commandHandlers[i].handler :
        i \in {j \in 1..Len(commandHandlers) :
                 PatternMatches(commandHandlers[j].pattern, transcript)}}

InvokedHandlers(calls) == {calls[i].handler : i \in 1..Len(calls)}

\* C1: when a qualifying result has been dispatched, every registered
\* callback whose pattern matches the transcript has been invoked and no
\* exception has left onresult, whichever callbacks throw.
C1_HandlerFaultsAreIsolated ==
    (lastOp.op = "onresult" /\ lastOp.accepted) =>
        /\ ~lastOp.escaped
        /\ Matching(lastCommand.command) \subseteq InvokedHandlers(lastOp.invoked)

\* The entries of a registry that belong to callbacks other than h.
OthersOf(m, h) == SelectSeq(m, LAMBDA e : e.handler # h)

\* C2: a call of the function registerCommand returned to caller h leaves
\* callback h out of the registry and every entry of another callback as it
\* was, a later registration under an equal pattern included.
C2_CleanupRevokesExactlyItsRegistration ==
    [][\A h \in Handlers :
          Cleanup(h) =>
            /\ h \notin {commandHandlers'[i].handler :
                           i \in 1..Len(commandHandlers')}
            /\ OthersOf(commandHandlers', h) = OthersOf(commandHandlers, h)]_vars

\* C3: a repeated call of the function registerCommand returned to caller h
\* leaves the registry as it was, whatever was registered in between.
C3_CleanupIsIdempotent ==
    [][\A h \in Handlers :
          (Cleanup(h) /\ cleanups[h].called) =>
            commandHandlers' = commandHandlers]_vars

\* A delivered confidence that is below a threshold; none delivered counts
\* as zero.
BelowThreshold(rc, th) == IF rc = <<>> THEN 0 < th ELSE rc[1] < th

\* C4: a result whose confidence is below the threshold of the session that
\* delivers it (none delivered included) leaves lastCommand and confidence
\* as they were and invokes no callback.
C4_SubThresholdResultChangesNothing ==
    [][(lastOp'.op = "onresult" /\ BelowThreshold(lastOp'.rc, lastOp'.th)) =>
          /\ lastCommand' = lastCommand
          /\ confidence' = confidence
          /\ lastOp'.invoked = <<>>
          /\ ~lastOp'.accepted]_vars

\* C4 witness: a result below the threshold has been handled while a
\* command was recorded and, whatever its transcript was, a registered
\* pattern matched it.
C4_Witness ==
    /\ lastOp.op = "onresult"
    /\ BelowThreshold(lastOp.rc, lastOp.th)
    /\ lastCommand.present
    /\ \A raw \in RawTranscripts : Matching(ToLowerCase(Trim(raw))) # {}

\* C5: a result of confidence c at or above the threshold of the session
\* that delivers it sets lastCommand.command to the lowercased, trimmed
\* transcript and confidence to c, and invokes exactly the registered
\* callbacks whose pattern matches, each once, with (transcript, c).
C5_QualifyingResultDispatchesExactlyMatching ==
    [][lastOp'.op = "onresult" =>
        \A s \in Sessions, raw \in RawTranscripts, rc \in RawConfidences,
           failing \in SUBSET Handlers :
            (OnResult(s, raw, rc, failing) /\ ~BelowThreshold(rc, session[s].th)) =>
                LET transcript == ToLowerCase(Trim(raw))
                    calls == lastOp'.invoked
                IN /\ lastCommand'.present
                   /\ lastCommand'.command = transcript
                   /\ lastCommand'.confidence = rc[1]
                   /\ confidence' = rc[1]
                   /\ InvokedHandlers(calls) = Matching(transcript)
                   /\ Len(calls) = Cardinality(Matching(transcript))
                   /\ \A i \in 1..Len(calls) :
                        /\ calls[i].command = transcript
                        /\ calls[i].confidence = rc[1]]_vars

\* C6 as stated, at a configuration change: a recorded command whose
\* confidence is at or above the configured threshold is still at or above
\* the threshold configured after the change.
C6_LastCommandMeetsCurrentThreshold ==
    [][(/\ lastOp'.op = "config"
        /\ lastCommand.present
        /\ lastCommand.confidence >= confidenceThreshold) =>
          (/\ lastCommand'.present
           /\ lastCommand'.confidence >= confidenceThreshold')]_vars

\* C6, amended: a recorded command has a confidence at or above the
\* threshold that was configured for the session that delivered it.
C6_LastCommandMetItsSessionThreshold ==
    lastCommand.present => lastCommand.confidence >= lastCommand.floor

\* C6 witness: a command accepted under the lower threshold is still
\* recorded after the threshold has been raised above its confidence.
C6_Witness ==
    /\ lastCommand.present
    /\ lastOp.op = "config"
    /\ lastCommand.floor < confidenceThreshold
    /\ lastCommand.confidence < confidenceThreshold

\* C7: once an operation or notification has completed, an error is
\* recorded only while not listening.
C7_NoErrorWhileListening ==
    error # NoError => ~isListening

\* A session that has been started and has reported neither end nor error.
Active(s) ==
    session[s].status \in {"starting", "listening", "stopping", "cancelling"}

\* C9: at most one session is active, and every session the ref no longer
\* holds has been asked to stop.
C9_AtMostOneActiveSession ==
    /\ Cardinality({s \in Sessions : Active(s)}) <= 1
    /\ \A s \in Sessions :
         s # recognitionRef => session[s].status \notin {"starting", "listening"}

\* C8: setEnabled(false) while listening leaves no session running without
\* a stop request; isListening then becomes false once the platform
\* delivers the end it owes; startListening while disabled requests no
\* start and changes no state.
C8_DisablingStopsListening ==
    /\ [][(lastOp'.op = "setEnabled" /\ ~isEnabled' /\ isListening) =>
            \A s \in Sessions :
                session'[s].status \notin {"starting", "listening"}]_vars
    /\ (lastOp.op = "setEnabled" /\ ~isEnabled /\ isListening) ~> ~isListening
    /\ [][(lastOp'.op = "startListening" /\ ~isEnabled) =>
            UNCHANGED <<state, session, recognitionRef>>]_vars

\* C8 witness: setEnabled(false) has just run while listening and the
\* session of the ref has been asked to stop.
C8_Witness ==
    /\ lastOp.op = "setEnabled"
    /\ ~isEnabled
    /\ isListening
    /\ recognitionRef # NoSession
    /\ session[recognitionRef].status = "stopping"

\* C10: startListening lets no exception out; unsupported, disabled or
\* without a session it requests no start and changes no state; when start()
\* raises, the one change is error = "Failed to start speech recognition".
C10_StartListeningFailsQuietly ==
    [][lastOp'.op = "startListening" =>
        /\ ~lastOp'.escaped
        /\ (~isSupported \/ ~isEnabled \/ recognitionRef = NoSession) =>
              UNCHANGED <<state, session, recognitionRef>>
        /\ lastOp'.threw =>
              /\ error' = "Failed to start speech recognition"
              /\ UNCHANGED <<isListening, isSupported, isEnabled, lastCommand,
                             confidence, session, recognitionRef>>]_vars

\* C10 witness: start() has just raised on a session that is listening.
C10_Witness ==
    /\ lastOp.op = "startListening"
    /\ lastOp.threw
    /\ error = "Failed to start speech recognition"
    /\ isListening

\* The message for each error code.
C11_Message(code) ==
    CASE code = "no-speech"     -> "No speech detected"
      [] code = "audio-capture" -> "Audio capture failed"
      [] code = "not-allowed"   -> "Microphone access denied"
      [] code = "network"       -> "Network error"
      [] code = "aborted"       -> "Speech recognition error: aborted"
      [] code = "xyz"           -> "Speech recognition error: xyz"

\* C11: an error notification with code k, from whatever state, leaves
\* isListening false and error equal to the message for k: the four named
\* messages, and "Speech recognition error: " followed by k otherwise.
C11_ErrorIsClassified ==
    [][lastOp'.op = "onerror" =>
        /\ isListening' = FALSE
        /\ error' = C11_Message(lastOp'.code)]_vars

\* C11 witness: a code the switch does not name has been reported and the
\* fallback message is recorded.
C11_Witness ==
    /\ lastOp.op = "onerror"
    /\ lastOp.code = "xyz"
    /\ error = "Speech recognition error: xyz"
    /\ ~isListening

\* C12: the indicator is visible whenever the platform is supported and
\* the provider is listening; the timer a command starts never hides it
\* while listening.
C12_IndicatorVisibleWhileListening ==
    (isSupported /\ isListening) => IndicatorVisible

\* C13: stopListening changes no field of the state and raises nothing,
\* listening or not; isListening goes from true to false only in an end or
\* error notification.
C13_StopListeningIsARequest ==
    [][/\ lastOp'.op = "stopListening" =>
            /\ UNCHANGED state
            /\ ~lastOp'.threw
            /\ ~lastOp'.escaped
       /\ (isListening /\ ~isListening') =>
            lastOp'.op \in {"onend", "onerror"}]_vars

\* C13 witness: stopListening has just run while listening: the session has
\* been asked to stop and isListening is still true.
C13_Witness ==
    /\ lastOp.op = "stopListening"
    /\ isListening
    /\ recognitionRef # NoSession
    /\ session[recognitionRef].status = "stopping"

\* Supported, enabled, and the session of the ref not started.
IdleAndReady ==
    /\ isSupported
    /\ isEnabled
    /\ ~isListening
    /\ recognitionRef # NoSession
    /\ session[recognitionRef].status = "idle"

\* C14 as stated: startListening called when idle, enabled and supported
\* requests the start of the session and leaves error null.
C14_StartListeningClearsError ==
    [][(lastOp'.op = "startListening" /\ IdleAndReady) =>
          /\ session'[recognitionRef].status = "starting"
          /\ error' = NoError]_vars

\* C14, amended: startListening called when idle, enabled and supported
\* requests the start of the session and leaves error as it was; the start
\* notification and a qualifying result leave error null; a result below
\* the threshold leaves error as it was.
C14_ErrorClearedByStartNotification ==
    [][/\ (lastOp'.op = "startListening" /\ IdleAndReady) =>
            /\ session'[recognitionRef].status = "starting"
            /\ error' = error
       /\ lastOp'.op = "onstart" => error' = NoError
       /\ (lastOp'.op = "onresult" /\ ~BelowThreshold(lastOp'.rc, lastOp'.th)) =>
            error' = NoError
       /\ (lastOp'.op = "onresult" /\ BelowThreshold(lastOp'.rc, lastOp'.th)) =>
            error' = error]_vars

\* C14 witness: startListening has just requested a start while an error
\* of an earlier session run is still recorded.
C14_Witness ==
    /\ lastOp.op = "startListening"
    /\ ~lastOp.threw
    /\ recognitionRef # NoSession
    /\ session[recognitionRef].status = "starting"
    /\ error = "Microphone access denied"

\* C15: isListening is true only while isSupported is true; on a platform
\* without the facility isSupported and isListening are false and error
\* is the not-supported message, whatever operations have been called.
C15_UnsupportedIsTerminal ==
    /\ isListening => isSupported
    /\ ~hasSpeechRecognition =>
         /\ ~isSupported
         /\ ~isListening
         /\ error = "Speech recognition not supported in this browser"

\* C15 witness: on a platform without the facility startListening has
\* just been called while enabled.
C15_Witness ==
    /\ ~hasSpeechRecognition
    /\ lastOp.op = "startListening"
    /\ isEnabled
    /\ ~isListening

\* C16: isListening reflects the session the ref holds: while that session
\* is listening isListening is true, whatever a replaced session notifies;
\* and a result that has just been accepted has a confidence at or above
\* the threshold now configured.
C16_ReplacedSessionIsIgnored ==
    /\ (recognitionRef # NoSession /\
         session[recognitionRef].status \in {"listening", "stopping"}) =>
            isListening
    /\ (lastOp.op = "onresult" /\ lastOp.accepted) =>
            lastCommand.confidence >= confidenceThreshold

\* C17: whenever the provider is disabled and listening, every session
\* that has been started has been asked to stop.
C17_NotListeningWhileDisabled ==
    (~isEnabled /\ isListening) =>
        \A s \in Sessions : session[s].status \notin {"starting", "listening"}

\* localStorage holds all of 'token', 'userId' and 'user'.
HoldsSession(store) == \A k \in Keys : store[k] # Absent

\* C18: user is non-null only while localStorage holds all of 'token',
\* 'userId' and 'user'; logout leaves the three keys absent and user null;
\* a rejected login or register call rethrows and leaves localStorage and
\* user as they were, and a rejected registration is not followed by a
\* login attempt of that call.
C18_AuthSessionConsistent ==
    [][/\ user # NoUser => HoldsSession(localStorage)
       /\ user' # NoUser => HoldsSession(localStorage')
       /\ lastOp'.op = "logout" =>
            /\ \A k \in Keys : localStorage'[k] = Absent
            /\ user' = NoUser
       /\ lastOp'.op = "rejected" =>
            /\ lastOp'.rethrown
            /\ UNCHANGED <<user, localStorage>>
            /\ \A c \in 1..MaxCalls :
                 (inFlight[c] # NoCall /\ inFlight'[c] # inFlight[c]) =>
                    inFlight'[c] = NoCall]_vars

\* C18 witness: a registration has just been rejected while another
\* account is logged in and a login call is in flight.
C18_Witness ==
    /\ lastOp.op = "rejected"
    /\ lastOp.by = "register"
    /\ lastOp.stage = "register"
    /\ user = "u1"
    /\ HoldsSession(localStorage)
    /\ \E c \in 1..MaxCalls : inFlight[c] # NoCall /\ inFlight[c].stage = "login"

====
